---- MODULE Spec2Model ----
(***************************************************************************)
(* Model of the JavaScript/TypeScript obfuscator                           *)
(* (src/src/obfuscators/javascript.ts): parse, scope-aware rename pass,    *)
(* string-literal encode pass, compact code generation.                    *)
(*                                                                         *)
(* Identifier names are sequences of one-character strings, string-literal *)
(* values are sequences of UTF-16 code units (numbers), so that prefix     *)
(* tests, UTF-8 encoding and base64 are computed, not assumed.             *)
(***************************************************************************)
EXTENDS Integers, Sequences, FiniteSets, TLC

VARIABLES
  ast,        \* the syntax tree, nodes in traversal (pre-)order, mutated in place
  input,      \* the tree as parsed at the start of the current run
  options,    \* ObfuscatorOptions of the current run
  prev,       \* options of the previous run (NoOptions in the first run)
  renameMap,  \* WeakMap keyed by declaring Identifier node (its index)
  pc,         \* "rename" | "encode" | "generate" | "done" | "failed"
  idx,        \* node the running traversal is about to visit (0: none)
  output,     \* the returned code (NoOutput until generate has run)
  run,        \* number of the current invocation
  call,       \* the function invoked, its arguments and its environment
  ret,        \* what the invoked function returned (NoReturn: nothing yet)
  cli         \* the local state of the command line's main()

vars == <<ast, input, options, prev, renameMap, pc, idx, output, run,
          call, ret, cli>>

(***************************************************************************)
(* Bounds                                                                  *)
(***************************************************************************)
MaxRandom == 1     \* Math.random() is sampled from the values 0..MaxRandom
MaxRuns   == 2     \* the transform is applied at most MaxRuns times in a row
MaxStrLen == 3     \* longest literal of the encoding specification
RandomGrid == 64   \* Math.random() is sampled at multiples of 1/RandomGrid

NoName    == <<>>
NoScope   == -1
NoOutput  == <<"<none>">>
NoOptions == [rename |-> FALSE, encodeStrings |-> FALSE]
NoReturn  == <<>>
Returned(v) == <<v>>
Idle      == [pc |-> "idle"]

(***************************************************************************)
(* Names                                                                   *)
(***************************************************************************)
NameX       == <<"x">>
NameY       == <<"y">>
NameF       == <<"f">>
NameO       == <<"o">>
NameLog     == <<"l","o","g">>
NameAtob    == <<"a","t","o","b">>
NameConsole == <<"c","o","n","s","o","l","e">>
NameOld     == <<"_","0","x","0","0","0","0","0","0">>

GeneratedPrefix == <<"_","0","x">>

reserved ==
  { <<"u","n","d","e","f","i","n","e","d">>, <<"n","u","l","l">>,
    <<"t","r","u","e">>, <<"f","a","l","s","e">>, <<"t","h","i","s">>,
    <<"a","r","g","u","m","e","n","t","s">>, <<"s","u","p","e","r">>,
    NameConsole, <<"w","i","n","d","o","w">>,
    <<"d","o","c","u","m","e","n","t">>, <<"g","l","o","b","a","l">>,
    <<"p","r","o","c","e","s","s">>, <<"r","e","q","u","i","r","e">>,
    <<"e","x","p","o","r","t","s">>, <<"m","o","d","u","l","e">> }

startsWith(s, p) == Len(s) >= Len(p) /\ SubSeq(s, 1, Len(p)) = p

HexDigits == <<"0","1","2","3","4","5","6","7","8","9","a","b","c","d","e","f">>

RECURSIVE toString16(_)
toString16(n) ==
  IF n < 16 THEN <<HexDigits[n + 1]>>
  ELSE toString16(n \div 16) \o <<HexDigits[(n % 16) + 1]>>

RECURSIVE padStart(_, _, _)
padStart(s, len, c) == IF Len(s) >= len THEN s ELSE padStart(<<c>> \o s, len, c)

\* Math.floor(Math.random() * 0xffffff): an integer of 0 .. 0xffffff - 1
RandomValues == { r \in 0..MaxRandom : r < 16777215 }

\* 0xffffff, the factor Math.random() is multiplied by
RandomSpace == 16777215

\* the values of Math.random(), each a number of [0, 1) written
\*     (hi * RandomSpace + lo) / (RandomGrid * RandomSpace)
\* the multiples of 1/RandomGrid and the largest value below the next one
RandomSamples == [hi : 0..(RandomGrid - 1), lo : {0, RandomSpace - 1}]

\* Math.floor(Math.random() * 0xffffff)
floorRandom(u) == (u.hi * RandomSpace + u.lo) \div RandomGrid

\* randomName without padStart
randomNameNoPad(r) == GeneratedPrefix \o toString16(r)

randomName(r) == GeneratedPrefix \o padStart(toString16(r), 6, "0")

(***************************************************************************)
(* String encoding: Buffer.from(value, "utf-8").toString("base64"), and    *)
(* the runtime's atob                                                      *)
(***************************************************************************)
IsHighSurrogate(c) == c >= 55296 /\ c <= 56319
IsLowSurrogate(c)  == c >= 56320 /\ c <= 57343

\* the UTF-8 bytes of one code point
utf8CodePoint(cp) ==
  IF cp < 128 THEN <<cp>>
  ELSE IF cp < 2048 THEN <<192 + (cp \div 64), 128 + (cp % 64)>>
  ELSE IF cp < 65536
    THEN <<224 + (cp \div 4096), 128 + ((cp \div 64) % 64), 128 + (cp % 64)>>
  ELSE <<240 + (cp \div 262144), 128 + ((cp \div 4096) % 64),
         128 + ((cp \div 64) % 64), 128 + (cp % 64)>>

\* Buffer.from(s, "utf-8"): s is a sequence of UTF-16 code units; a surrogate
\* pair is one code point, an unpaired surrogate is written as U+FFFD
RECURSIVE utf8(_)
utf8(s) ==
  IF s = <<>> THEN <<>>
  ELSE LET c == Head(s) IN
    IF IsHighSurrogate(c) /\ Len(s) >= 2 /\ IsLowSurrogate(s[2])
      THEN utf8CodePoint(65536 + (c - 55296) * 1024 + (s[2] - 56320))
             \o utf8(Tail(Tail(s)))
    ELSE IF IsHighSurrogate(c) \/ IsLowSurrogate(c)
      THEN utf8CodePoint(65533) \o utf8(Tail(s))
    ELSE utf8CodePoint(c) \o utf8(Tail(s))

\* the code unit of the base64 digit i (A-Z, a-z, 0-9, +, /)
Base64Char(i) ==
  IF i < 26 THEN 65 + i
  ELSE IF i < 52 THEN 97 + (i - 26)
  ELSE IF i < 62 THEN 48 + (i - 52)
  ELSE IF i = 62 THEN 43 ELSE 47

Base64Pad == 61

\* buf.toString("base64")
RECURSIVE base64(_)
base64(b) ==
  IF Len(b) = 0 THEN <<>>
  ELSE IF Len(b) = 1
    THEN <<Base64Char(b[1] \div 4), Base64Char((b[1] % 4) * 16),
           Base64Pad, Base64Pad>>
  ELSE IF Len(b) = 2
    THEN <<Base64Char(b[1] \div 4),
           Base64Char((b[1] % 4) * 16 + (b[2] \div 16)),
           Base64Char((b[2] % 16) * 4), Base64Pad>>
  ELSE <<Base64Char(b[1] \div 4),
         Base64Char((b[1] % 4) * 16 + (b[2] \div 16)),
         Base64Char((b[2] % 16) * 4 + (b[3] \div 64)),
         Base64Char(b[3] % 64)>> \o base64(SubSeq(b, 4, Len(b)))

encodeStringLiteral(value) == base64(utf8(value))

Base64Index(c) == CHOOSE i \in 0..63 : Base64Char(i) = c

IsBase64Char(c) == \E i \in 0..63 : Base64Char(i) = c

RECURSIVE stripPad(_)
stripPad(s) ==
  IF Len(s) > 0 /\ s[Len(s)] = Base64Pad THEN stripPad(SubSeq(s, 1, Len(s) - 1))
  ELSE s

\* the inputs atob accepts (it throws InvalidCharacterError on the others)
atobAccepts(s) ==
  LET d == stripPad(s) IN
    /\ Len(s) - Len(d) <= 2
    /\ \A i \in 1..Len(d) : IsBase64Char(d[i])
    /\ Len(d) % 4 # 1
    /\ (Len(s) # Len(d) => Len(s) % 4 = 0)

RECURSIVE atobDigits(_)
atobDigits(d) ==
  IF Len(d) < 2 THEN <<>>
  ELSE LET a == Base64Index(d[1])
           b == Base64Index(d[2]) IN
    IF Len(d) = 2 THEN <<a * 4 + (b \div 16)>>
    ELSE LET c == Base64Index(d[3]) IN
      IF Len(d) = 3 THEN <<a * 4 + (b \div 16), (b % 16) * 16 + (c \div 4)>>
      ELSE <<a * 4 + (b \div 16), (b % 16) * 16 + (c \div 4),
             (c % 4) * 64 + Base64Index(d[4])>> \o atobDigits(SubSeq(d, 5, Len(d)))

\* atob(s): a "binary string", one code unit (0..255) per decoded byte
atob(s) == atobDigits(stripPad(s))

(***************************************************************************)
(* Syntax tree.  A node is a record; parent is the index of the parent     *)
(* node (0: the Program), key the parent's field that holds the node,      *)
(* scope the scope of the node's path (path.scope), declares the scope in  *)
(* which an Identifier registers a binding (NoScope: it declares nothing). *)
(* made records that the node was created by the encode pass (history      *)
(* only: no operation reads it).                                           *)
(***************************************************************************)
Node(type, name, value, key, computed, scope, declares, parent) ==
  [type |-> type, name |-> name, value |-> value, key |-> key,
   computed |-> computed, scope |-> scope, declares |-> declares,
   parent |-> parent, made |-> FALSE]

Program == Node("Program", NoName, <<>>, "", FALSE, 0, NoScope, 0)

Container(type, key, computed, scope, parent) ==
  Node(type, NoName, <<>>, key, computed, scope, NoScope, parent)

Identifier(name, key, scope, declares, parent) ==
  Node("Identifier", name, <<>>, key, FALSE, scope, declares, parent)

StringLiteral(value, key, scope, parent) ==
  Node("StringLiteral", NoName, value, key, FALSE, scope, NoScope, parent)

\* path.parent
Parent(tree, i) == IF tree[i].parent = 0 THEN Program ELSE tree[tree[i].parent]

\* node.callee of the CallExpression at index p (Program when p has none)
Callee(tree, p) ==
  IF \E j \in 1..Len(tree) : tree[j].parent = p /\ tree[j].key = "callee"
    THEN tree[CHOOSE j \in 1..Len(tree) : tree[j].parent = p /\ tree[j].key = "callee"]
    ELSE Program

\* the first node of the given type after index i (0: none): the next node
\* the traversal hands to a visitor of that type
NextOfType(tree, i, type) ==
  IF \E j \in (i + 1)..Len(tree) : tree[j].type = type
    THEN CHOOSE j \in (i + 1)..Len(tree) :
           /\ tree[j].type = type
           /\ \A k \in (i + 1)..(j - 1) : tree[k].type # type
    ELSE 0

(***************************************************************************)
(* Scopes: scope 0 is the program, scope s + 1 is nested in scope s.       *)
(***************************************************************************)
ScopeParent(s) == IF s = 0 THEN NoScope ELSE s - 1

\* scope.getOwnBinding(name): the declaring Identifier registered in scope s
\* under that name (0: none); a later declaration of the same name in the
\* same scope does not replace the first
getOwnBinding(tree, s, name) ==
  LET decls == { j \in 1..Len(tree) :
                   /\ tree[j].type = "Identifier"
                   /\ tree[j].declares = s
                   /\ tree[j].name = name } IN
    IF decls = {} THEN 0 ELSE CHOOSE j \in decls : \A k \in decls : j <= k

\* scope.getBinding(name): walk outward through the enclosing scopes
RECURSIVE getBinding(_, _, _)
getBinding(tree, s, name) ==
  IF s = NoScope THEN 0
  ELSE LET own == getOwnBinding(tree, s, name) IN
    IF own # 0 THEN own ELSE getBinding(tree, ScopeParent(s), name)

(***************************************************************************)
(* Input programs.  Every input has the shape                              *)
(*     var A;  function f(P) { U1 }  U0                                    *)
(* where U1 and U0 are statements drawn from the sets below.               *)
(***************************************************************************)
DeclNames == {NameX, NameConsole, NameAtob, NameOld}
ParamNames == {NameX, NameF}
UseNames == {NameX, NameF, NameY, NameConsole}
CalleeNames == {NameAtob, NameX}
Values == {<<>>, <<65>>, <<233>>}

Use(kind, type, computed, name, value, nargs) ==
  [kind |-> kind, type |-> type, computed |-> computed, name |-> name,
   value |-> value, nargs |-> nargs]

\* n;   o.n  o[n]  o?.n   ({n: 0})  ({[n]: 0})  ({n() {}})  class { n() {} }
IdentifierUses ==
  { Use("Ref", "ExpressionStatement", FALSE, n, <<>>, 0) : n \in UseNames }
  \cup { Use("Member", "MemberExpression", c, n, <<>>, 0) :
           c \in BOOLEAN, n \in UseNames }
  \cup { Use("Member", "OptionalMemberExpression", FALSE, n, <<>>, 0) :
           n \in UseNames }
  \cup { Use("Key", "ObjectProperty", c, n, <<>>, 0) :
           c \in BOOLEAN, n \in UseNames }
  \cup { Use("Key", ty, FALSE, n, <<>>, 0) :
           ty \in {"ObjectMethod", "ClassMethod"}, n \in UseNames }

\* n("v")  n("v", "v")  console.log("v")  import "v"  ({"v": 0})  type T = "v"
LiteralUses ==
  { Use("Call", "CallExpression", FALSE, n, v, k) :
      n \in CalleeNames, v \in Values, k \in 1..2 }
  \cup { Use("Log", "CallExpression", FALSE, NameLog, v, 1) : v \in Values }
  \cup { Use("Import", "ImportDeclaration", FALSE, NoName, v, 0) :
           v \in {<<>>, <<65>>} }
  \cup { Use("StringKey", "ObjectProperty", FALSE, NoName, v, 0) :
           v \in {<<>>, <<65>>} }
  \cup { Use("TypeLiteral", "TSLiteralType", FALSE, NoName, v, 0) :
           v \in {<<>>, <<65>>} }

InnerUses == { Use("Ref", "ExpressionStatement", FALSE, n, <<>>, 0) :
                 n \in {NameX, NameF} }
OuterUses == IdentifierUses \cup LiteralUses

\* the nodes of the statement u, placed after `base` nodes, as a child of
\* the node `container`, in scope s
UseNodes(u, base, container, s) ==
  IF u.kind = "Ref" THEN
    << Container("ExpressionStatement", "body", FALSE, s, container),
       Identifier(u.name, "expression", s, NoScope, base + 1) >>
  ELSE IF u.kind = "Member" THEN
    << Container("ExpressionStatement", "body", FALSE, s, container),
       Container(u.type, "expression", u.computed, s, base + 1),
       Identifier(NameO, "object", s, NoScope, base + 2),
       Identifier(u.name, "property", s, NoScope, base + 2) >>
  ELSE IF u.kind = "Key" THEN
    << Container(u.type, "body", u.computed, s, container),
       Identifier(u.name, "key", s, NoScope, base + 1) >>
  ELSE IF u.kind = "Call" THEN
    << Container("ExpressionStatement", "body", FALSE, s, container),
       Container("CallExpression", "expression", FALSE, s, base + 1),
       Identifier(u.name, "callee", s, NoScope, base + 2) >>
    \o [k \in 1..u.nargs |-> StringLiteral(u.value, "arguments", s, base + 2)]
  ELSE IF u.kind = "Log" THEN
    << Container("ExpressionStatement", "body", FALSE, s, container),
       Container("CallExpression", "expression", FALSE, s, base + 1),
       Container("MemberExpression", "callee", FALSE, s, base + 2),
       Identifier(NameConsole, "object", s, NoScope, base + 3),
       Identifier(NameLog, "property", s, NoScope, base + 3),
       StringLiteral(u.value, "arguments", s, base + 2) >>
  ELSE IF u.kind = "Import" THEN
    << Container("ImportDeclaration", "body", FALSE, s, container),
       StringLiteral(u.value, "source", s, base + 1) >>
  ELSE IF u.kind = "StringKey" THEN
    << Container("ObjectProperty", "body", FALSE, s, container),
       StringLiteral(u.value, "key", s, base + 1) >>
  ELSE
    << Container("TSLiteralType", "body", FALSE, s, container),
       StringLiteral(u.value, "literal", s, base + 1) >>

\* parser.parse(source): var A; function f(P) { u1 } u0
\* The name of a function declaration is registered in the enclosing scope,
\* while the scope of its path is the function's own scope.
Parse(A, P, u1, u0) ==
  LET head == << Container("VariableDeclarator", "body", FALSE, 0, 0),
                 Identifier(A, "id", 0, 0, 1),
                 Container("FunctionDeclaration", "body", FALSE, 0, 0),
                 Identifier(NameF, "id", 1, 0, 3),
                 Identifier(P, "params", 1, 1, 3) >>
      body == UseNodes(u1, 5, 3, 1)
  IN head \o body \o UseNodes(u0, 5 + Len(body), 0, 0)

Sources ==
  { Parse(A, P, u1, u0) :
      A \in DeclNames, P \in ParamNames, u1 \in InnerUses, u0 \in OuterUses }

Options == [rename : BOOLEAN, encodeStrings : BOOLEAN]

\* the values a caller may pass as options: the object is not checked at run
\* time, so it may carry a key the interface does not declare
OptionKeys == {"rename", "encodeStrings"}

OptionValues ==
  Options \cup {[rename |-> TRUE, encodeStrings |-> TRUE, minify |-> TRUE]}

(***************************************************************************)
(* obfuscateJavaScript                                                     *)
(***************************************************************************)
EmptyMap(tree) == [i \in 1..Len(tree) |-> NoName]

\* where control goes once the rename pass is over (or was skipped)
AfterRename(opts, tree) ==
  IF opts.encodeStrings /\ NextOfType(tree, 0, "StringLiteral") # 0
    THEN [pc |-> "encode", idx |-> NextOfType(tree, 0, "StringLiteral")]
    ELSE [pc |-> "generate", idx |-> 0]

\* AfterParse with the rename pass run whatever options.rename is
AfterParseAlwaysRename(opts, tree) ==
  IF NextOfType(tree, 0, "Identifier") # 0
    THEN [pc |-> "rename", idx |-> NextOfType(tree, 0, "Identifier")]
    ELSE AfterRename(opts, tree)

\* where control goes once the source is parsed
AfterParse(opts, tree) ==
  IF opts.rename /\ NextOfType(tree, 0, "Identifier") # 0
    THEN [pc |-> "rename", idx |-> NextOfType(tree, 0, "Identifier")]
    ELSE AfterRename(opts, tree)

\* getNameForBinding without the test for reserved names
getNameForBindingNoReserved(b, r) ==
  IF renameMap[b] = NoName
    THEN [name |-> randomName(r), map |-> [renameMap EXCEPT ![b] = randomName(r)]]
  ELSE [name |-> renameMap[b], map |-> renameMap]

\* getNameForBinding(identifier): identifier is the node at index b; r is
\* the value Math.random() yields if a name has to be generated
getNameForBinding(b, r) ==
  IF ast[b].name \in reserved
    THEN [name |-> ast[b].name, map |-> renameMap]
  ELSE IF renameMap[b] = NoName
    THEN [name |-> randomName(r), map |-> [renameMap EXCEPT ![b] = randomName(r)]]
  ELSE [name |-> renameMap[b], map |-> renameMap]

\* the early returns of the Identifier visitor
isMemberProperty(tree, i) ==
  /\ Parent(tree, i).type = "MemberExpression"
  /\ tree[i].key = "property"
  /\ ~Parent(tree, i).computed

isObjectKey(tree, i) ==
  /\ Parent(tree, i).type = "ObjectProperty"
  /\ tree[i].key = "key"
  /\ ~Parent(tree, i).computed

\* the early returns without the test for generated names
RenameSkipsNoPrefixTest(tree, i) ==
  \/ isMemberProperty(tree, i)
  \/ isObjectKey(tree, i)

RenameSkips(tree, i) ==
  \/ startsWith(tree[i].name, GeneratedPrefix)
  \/ isMemberProperty(tree, i)
  \/ isObjectKey(tree, i)

\* path.scope.getBinding(path.node.name): the scope information was
\* collected from the tree as parsed, the name is the node's current one
BindingOf(i) == getBinding(input, ast[i].scope, ast[i].name)

\* First pass, the Identifier visitor on the node at idx
VisitIdentifier ==
  /\ pc = "rename"
  /\ IF ~RenameSkips(ast, idx) /\ BindingOf(idx) # 0
       THEN \E r \in RandomValues :
              LET got == getNameForBinding(BindingOf(idx), r) IN
                /\ ast' = [ast EXCEPT ![idx].name = got.name]
                /\ renameMap' = got.map
       ELSE UNCHANGED <<ast, renameMap>>
  /\ IF NextOfType(ast, idx, "Identifier") # 0
       THEN /\ idx' = NextOfType(ast, idx, "Identifier")
            /\ pc' = pc
       ELSE /\ idx' = AfterRename(options, ast).idx
            /\ pc' = AfterRename(options, ast).pc
  /\ UNCHANGED <<input, options, prev, output, run, call, ret, cli>>

\* the "already inside atob(...)" test of the StringLiteral visitor
insideAtob(tree, i) ==
  /\ Parent(tree, i).type = "CallExpression"
  /\ Callee(tree, tree[i].parent).type = "Identifier"
  /\ Callee(tree, tree[i].parent).name = NameAtob

\* the early returns of the StringLiteral visitor without the empty-value test
EncodeSkipsNoEmptyTest(tree, i) == insideAtob(tree, i)

\* the early returns of the StringLiteral visitor without the atob test
EncodeSkipsNoAtobTest(tree, i) == Len(tree[i].value) = 0

EncodeSkips(tree, i) == Len(tree[i].value) = 0 \/ insideAtob(tree, i)

\* the node types a field accepts: path.replaceWith validates the new node
\* against the definition of the parent's field and throws when it does not fit
FieldAccepts(parentNode, key, type) ==
  IF parentNode.type = "ImportDeclaration" /\ key = "source"
    THEN type = "StringLiteral"
  ELSE IF parentNode.type = "TSLiteralType" /\ key = "literal"
    THEN type = "StringLiteral"
  ELSE IF /\ parentNode.type \in {"ObjectProperty", "ObjectMethod", "ClassMethod"}
          /\ key = "key" /\ ~parentNode.computed
    THEN type \in {"Identifier", "StringLiteral"}
  ELSE TRUE

\* path.replaceWith(t.callExpression(t.identifier("atob"), [t.stringLiteral(encoded)]))
\* on the node at index i: the call takes the literal's place, its two
\* children follow it, the nodes after them move by two
replaceWithCall(tree, i, encoded) ==
  LET old == tree[i]
      shifted(n) == IF n.parent > i THEN [n EXCEPT !.parent = n.parent + 2] ELSE n
      new(n) == [n EXCEPT !.made = TRUE]
  IN SubSeq(tree, 1, i - 1)
     \o << new(Container("CallExpression", old.key, FALSE, old.scope, old.parent)),
           new(Identifier(NameAtob, "callee", old.scope, NoScope, i)),
           new(StringLiteral(encoded, "arguments", old.scope, i)) >>
     \o [k \in 1..(Len(tree) - i) |-> shifted(tree[i + k])]

\* Second pass, the StringLiteral visitor on the node at idx.  The inserted
\* call is traversed too, so its literal is the next node visited.
VisitStringLiteral ==
  /\ pc = "encode"
  /\ IF EncodeSkips(ast, idx)
       THEN /\ ast' = ast
            /\ IF NextOfType(ast, idx, "StringLiteral") # 0
                 THEN idx' = NextOfType(ast, idx, "StringLiteral") /\ pc' = pc
                 ELSE idx' = 0 /\ pc' = "generate"
       ELSE IF FieldAccepts(Parent(ast, idx), ast[idx].key, "CallExpression")
         THEN /\ ast' = replaceWithCall(ast, idx, encodeStringLiteral(ast[idx].value))
              /\ idx' = idx + 2
              /\ pc' = pc
         ELSE /\ ast' = ast
              /\ idx' = 0
              /\ pc' = "failed"
  /\ UNCHANGED <<input, options, prev, renameMap, output, run, call, ret, cli>>

\* generate(ast, {compact: true, ...}).code: the names and literal values of
\* the tree in source order, a call written as callee ( arguments )
Token(n) ==
  IF n.type = "Identifier" THEN <<"id", n.name>>
  ELSE IF n.type = "StringLiteral" THEN <<"str", n.value>>
  ELSE <<n.type, n.computed>>

generate(tree) == [i \in 1..Len(tree) |-> Token(tree[i])]

Generate ==
  /\ pc = "generate"
  /\ output' = generate(ast)
  /\ pc' = "done"
  /\ UNCHANGED <<ast, input, options, prev, renameMap, idx, run, call, ret, cli>>

\* parser.parse accepts the code a tree stands for: a module does not
\* declare a name twice in one scope
Parses(tree) ==
  \A i, j \in 1..Len(tree) :
    (/\ tree[i].type = "Identifier" /\ tree[j].type = "Identifier"
     /\ tree[i].declares # NoScope /\ tree[i].declares = tree[j].declares
     /\ tree[i].name = tree[j].name) => i = j

\* the transform is applied again, to the code it returned
Rerun ==
  /\ pc = "done"
  /\ run < MaxRuns
  /\ Parses(ast)
  /\ \E o \in Options :
       /\ options' = o
       /\ pc' = AfterParse(o, ast).pc
       /\ idx' = AfterParse(o, ast).idx
  /\ prev' = options
  /\ input' = ast
  /\ renameMap' = EmptyMap(ast)
  /\ output' = NoOutput
  /\ run' = run + 1
  /\ UNCHANGED <<ast, call, ret, cli>>

Init ==
  /\ ast \in Sources
  /\ input = ast
  /\ options \in OptionValues
  /\ prev = NoOptions
  /\ renameMap = EmptyMap(ast)
  /\ pc = AfterParse(options, ast).pc
  /\ idx = AfterParse(options, ast).idx
  /\ output = NoOutput
  /\ run = 1
  /\ call = [fn |-> "obfuscateJavaScript"]
  /\ ret = NoReturn
  /\ cli = Idle

Next == VisitIdentifier \/ VisitStringLiteral \/ Generate \/ Rerun

Spec == Init /\ [][Next]_vars

(***************************************************************************)
(* Specification of the encoder alone: the input is                        *)
(*     var x; function f(x) { x } console.log(s)                           *)
(* for every string s of at most MaxStrLen code units.                     *)
(***************************************************************************)
CodeUnits == {0, 65, 233, 8364}

Strings == UNION { [1..k -> CodeUnits] : k \in 0..MaxStrLen }

InitEnc ==
  /\ \E s \in Strings :
       ast = Parse(NameX, NameX,
                   Use("Ref", "ExpressionStatement", FALSE, NameX, <<>>, 0),
                   Use("Log", "CallExpression", FALSE, NameLog, s, 1))
  /\ input = ast
  /\ options \in Options
  /\ prev = NoOptions
  /\ renameMap = EmptyMap(ast)
  /\ pc = AfterParse(options, ast).pc
  /\ idx = AfterParse(options, ast).idx
  /\ output = NoOutput
  /\ run = 1
  /\ call = [fn |-> "obfuscateJavaScript"]
  /\ ret = NoReturn
  /\ cli = Idle

SpecEnc == InitEnc /\ [][Next]_vars

(***************************************************************************)
(* Specification of randomName alone: one call for every sampled value of  *)
(* Math.random().                                                          *)
(***************************************************************************)
\* the state of the transform when it is not running
NoTransform ==
  /\ ast = <<>>
  /\ input = <<>>
  /\ options = NoOptions
  /\ prev = NoOptions
  /\ renameMap = <<>>
  /\ pc = "idle"
  /\ idx = 0
  /\ output = NoOutput
  /\ run = 0

transformVars == <<ast, input, options, prev, renameMap, pc, idx, output, run>>

InitName ==
  /\ NoTransform
  /\ \E u \in RandomSamples : call = [fn |-> "randomName", random |-> u]
  /\ ret = NoReturn
  /\ cli = Idle

RandomName ==
  /\ call.fn = "randomName"
  /\ ret = NoReturn
  /\ ret' = Returned(randomName(floorRandom(call.random)))
  /\ UNCHANGED <<transformVars, call, cli>>

NextName == RandomName

SpecName == InitName /\ [][NextName]_vars

(***************************************************************************)
(* detectLanguage (src/src/detect.ts).  Paths and file contents are        *)
(* sequences of one-character strings.                                     *)
(***************************************************************************)
null == "null"

\* the value of a property a plain object inherits from Object.prototype
Inherited == "[Function: Object]"

SUPPORTED_LANGS ==
  {"javascript", "typescript", "python", "rust", "c", "csharp", "cpp"}

EXT_MAP ==
  { <<<<".", "j", "s">>, "javascript">>,
    <<<<".", "m", "j", "s">>, "javascript">>,
    <<<<".", "c", "j", "s">>, "javascript">>,
    <<<<".", "t", "s">>, "typescript">>,
    <<<<".", "m", "t", "s">>, "typescript">>,
    <<<<".", "c", "t", "s">>, "typescript">>,
    <<<<".", "p", "y">>, "python">>,
    <<<<".", "r", "s">>, "rust">>,
    <<<<".", "c">>, "c">>,
    <<<<".", "h">>, "c">>,
    <<<<".", "c", "s">>, "csharp">>,
    <<<<".", "c", "p", "p">>, "cpp">>,
    <<<<".", "c", "x", "x">>, "cpp">>,
    <<<<".", "c", "c">>, "cpp">>,
    <<<<".", "h", "p", "p">>, "cpp">>,
    <<<<".", "h", "x", "x">>, "cpp">> }

SHEBANG_MAP ==
  { <<<<"n", "o", "d", "e">>, "javascript">>,
    <<<<"p", "y", "t", "h", "o", "n">>, "python">>,
    <<<<"p", "y", "t", "h", "o", "n", "3">>, "python">>,
    <<<<"p", "y", "t", "h", "o", "n", "2">>, "python">> }

\* object[key] for an object literal written as a set of <<key, value>>
\* pairs: an own property, else a property of Object.prototype, else undefined
Lookup(object, key) ==
  IF \E e \in object : e[1] = key
    THEN (CHOOSE e \in object : e[1] = key)[2]
  ELSE IF key = <<"c", "o", "n", "s", "t", "r", "u", "c", "t", "o", "r">> THEN Inherited
  ELSE null

UpperCase ==
  <<"A","B","C","D","E","F","G","H","I","J","K","L","M",
    "N","O","P","Q","R","S","T","U","V","W","X","Y","Z">>

LowerCase ==
  <<"a","b","c","d","e","f","g","h","i","j","k","l","m",
    "n","o","p","q","r","s","t","u","v","w","x","y","z">>

Digits == {"0","1","2","3","4","5","6","7","8","9"}

toLowerCase(t) ==
  [i \in 1..Len(t) |->
     IF \E k \in 1..26 : UpperCase[k] = t[i]
       THEN LowerCase[CHOOSE k \in 1..26 : UpperCase[k] = t[i]]
       ELSE t[i]]

\* String.prototype.lastIndexOf for one character, positions counted from 0
lastIndexOf(t, c) ==
  IF \E i \in 1..Len(t) : t[i] = c
    THEN (CHOOSE i \in 1..Len(t) :
            t[i] = c /\ \A j \in (i + 1)..Len(t) : t[j] # c) - 1
    ELSE -1

\* String.prototype.slice(start), start counted from 0
slice(t, start) == SubSeq(t, start + 1, Len(t))

\* the characters \s and \w match, among those the samples are written with
IsSpace(c) == c \in {" ", "\t", "\r", "\n"}

IsWordChar(c) ==
  \/ \E k \in 1..26 : UpperCase[k] = c \/ LowerCase[k] = c
  \/ c \in Digits
  \/ c = "_"

\* t without its leading white space
RECURSIVE dropSpaces(_)
dropSpaces(t) ==
  IF Len(t) > 0 /\ IsSpace(t[1]) THEN dropSpaces(Tail(t)) ELSE t

\* the longest prefix of t made of word characters
RECURSIVE takeWord(_)
takeWord(t) ==
  IF Len(t) > 0 /\ IsWordChar(t[1]) THEN <<t[1]>> \o takeWord(Tail(t)) ELSE <<>>

\* content.split("\n")[0]
RECURSIVE firstOfSplit(_)
firstOfSplit(content) ==
  IF Len(content) > 0 /\ content[1] # "\n"
    THEN <<content[1]>> \o firstOfSplit(Tail(content)) ELSE <<>>

RECURSIVE trimEnd(_)
trimEnd(t) ==
  IF Len(t) > 0 /\ IsSpace(t[Len(t)]) THEN trimEnd(SubSeq(t, 1, Len(t) - 1)) ELSE t

trim(t) == trimEnd(dropSpaces(t))

EnvPath == <<"/", "u", "s", "r", "/", "b", "i", "n", "/", "e", "n", "v">>

\* firstLine.match(/^#!\s*(?:\/usr\/bin\/env\s+)?(\w+)/): the captured word,
\* or <<>> when the line does not match.  After #! and white space the word
\* has to start at once, or after /usr/bin/env and white space.
shebangMatch(line) ==
  IF ~startsWith(line, <<"#", "!">>) THEN <<>>
  ELSE LET r1 == dropSpaces(slice(line, 2))
           afterEnv == slice(r1, Len(EnvPath))
           r2 == IF /\ startsWith(r1, EnvPath)
                    /\ Len(afterEnv) > 0 /\ IsSpace(afterEnv[1])
                   THEN dropSpaces(afterEnv)
                   ELSE r1
       IN takeWord(r2)

\* readFileSync(filePath, "utf-8") throws when the file cannot be read
Unreadable == <<"<unreadable>">>

\* detectLanguage(filePath, readShebang), content being what a read of the
\* file gives
detectLanguage(filePath, readShebang, content) ==
  LET dotIdx == lastIndexOf(filePath, ".")
      byExt == IF dotIdx > 0
                 THEN Lookup(EXT_MAP, toLowerCase(slice(filePath, dotIdx)))
                 ELSE null
  IN IF byExt # null THEN byExt
     ELSE IF ~readShebang THEN null
     ELSE IF content = Unreadable THEN null
     ELSE LET match == shebangMatch(trim(firstOfSplit(content)))
          IN IF match # <<>>
               THEN Lookup(SHEBANG_MAP, toLowerCase(match))
               ELSE null

PathSamples ==
  { <<"a", ".", "j", "s">>,
    <<"a", ".", "J", "S">>,
    <<"a", ".", "M", "j", "s">>,
    <<"a", ".", "t", "s">>,
    <<"a", ".", "p", "y">>,
    <<"a", ".", "r", "s">>,
    <<"a", ".", "c">>,
    <<"a", ".", "H">>,
    <<"a", ".", "c", "s">>,
    <<"a", ".", "c", "p", "p">>,
    <<"a", ".", "h", "x", "x">>,
    <<"a", ".", "t", "a", "r", ".", "j", "s">>,
    <<"a", ".", "t", "x", "t">>,
    <<"a", ".">>,
    <<"a">>,
    <<".", "j", "s">>,
    <<"d", ".", "j", "s", "/", "a">>,
    <<"d", "/", "a", ".", "p", "y">>,
    <<"a", ".", "j", "s", "x">> }

ContentSamples ==
  { Unreadable,
    <<>>,
    <<"#", "!", "/", "u", "s", "r", "/", "b", "i", "n", "/", "e", "n", "v", " ", "n", "o", "d", "e", "\n", "x">>,
    <<"#", "!", "n", "o", "d", "e">>,
    <<"#", "!", " ", "p", "y", "t", "h", "o", "n">>,
    <<"#", "!", "/", "u", "s", "r", "/", "b", "i", "n", "/", "e", "n", "v", " ", "p", "y", "t", "h", "o", "n", "3", "\n">>,
    <<"#", "!", "/", "u", "s", "r", "/", "b", "i", "n", "/", "e", "n", "v", " ", " ", "P", "y", "t", "h", "o", "n", "2", "\r", "\n">>,
    <<"#", "!", "/", "u", "s", "r", "/", "b", "i", "n", "/", "p", "y", "t", "h", "o", "n", "3", "\n">>,
    <<"#", "!", "/", "u", "s", "r", "/", "b", "i", "n", "/", "n", "o", "d", "e">>,
    <<"#", "!", "/", "b", "i", "n", "/", "s", "h", "\n">>,
    <<"#", "!", "/", "u", "s", "r", "/", "b", "i", "n", "/", "e", "n", "v", " ", "r", "u", "b", "y", "\n">>,
    <<"#", "!", "c", "o", "n", "s", "t", "r", "u", "c", "t", "o", "r">>,
    <<"x", "\n", "#", "!", "n", "o", "d", "e">>,
    <<"v", "a", "r", " ", "x">> }

InitDetect ==
  /\ NoTransform
  /\ \E f \in PathSamples, c \in ContentSamples, b \in BOOLEAN :
       call = [fn |-> "detectLanguage", filePath |-> f,
               readShebang |-> b, content |-> c]
  /\ ret = NoReturn
  /\ cli = Idle

DetectLanguage ==
  /\ call.fn = "detectLanguage"
  /\ ret = NoReturn
  /\ ret' = Returned(detectLanguage(call.filePath, call.readShebang, call.content))
  /\ UNCHANGED <<transformVars, call, cli>>

NextDetect == DetectLanguage

SpecDetect == InitDetect /\ [][NextDetect]_vars

(***************************************************************************)
(* The command line (src/src/cli.ts) with ensureDependency                 *)
(* (src/unnamed/part_000) and the dispatch of runSecureCommand             *)
(* (src/src/secureCommand.ts).  Arguments and paths are sequences of       *)
(* one-character strings.                                                  *)
(***************************************************************************)
MaxInputs == 2     \* most input files of a command line

\* null or undefined where a string is expected
NoArg == <<"<null>">>

ArgHelp     == { <<"-", "h">>, <<"-", "-", "h", "e", "l", "p">> }
ArgOut      == { <<"-", "o">>, <<"-", "-", "o", "u", "t">> }
ArgLang     == <<"-", "-", "l", "a", "n", "g">>
ArgNoRename == <<"-", "-", "n", "o", "-", "r", "e", "n", "a", "m", "e">>
ArgNoEncode == <<"-", "-", "n", "o", "-", "e", "n", "c", "o", "d", "e", "-", "s", "t", "r", "i", "n", "g", "s">>

DEFAULT_OPTIONS == [rename |-> TRUE, encodeStrings |-> TRUE]

\* the loop of parseArgs from args[i] on (i counted from 1); help: the loop
\* met -h or --help, printed the usage and left with process.exit(0)
RECURSIVE parseFrom(_, _, _)
parseFrom(args, i, acc) ==
  IF i > Len(args) THEN acc
  ELSE LET arg == args[i]
           value == IF i + 1 <= Len(args) THEN args[i + 1] ELSE NoArg
       IN IF arg \in ArgHelp THEN [acc EXCEPT !.help = TRUE]
          ELSE IF arg \in ArgOut
            THEN parseFrom(args, i + 2, [acc EXCEPT !.outPath = value])
          ELSE IF arg = ArgLang
            THEN parseFrom(args, i + 2, [acc EXCEPT !.lang = value])
          ELSE IF arg = ArgNoRename
            THEN parseFrom(args, i + 1, [acc EXCEPT !.options.rename = FALSE])
          ELSE IF arg = ArgNoEncode
            THEN parseFrom(args, i + 1, [acc EXCEPT !.options.encodeStrings = FALSE])
          ELSE IF ~startsWith(arg, <<"-">>)
            THEN parseFrom(args, i + 1,
                           [acc EXCEPT !.inputPaths = Append(acc.inputPaths, arg)])
          ELSE parseFrom(args, i + 1, acc)

\* parseArgs(process.argv), args being process.argv.slice(2)
parseArgs(args) ==
  parseFrom(args, 1, [inputPaths |-> <<>>, outPath |-> NoArg, lang |-> NoArg,
                      options |-> DEFAULT_OPTIONS, help |-> FALSE])

\* the spellings of SUPPORTED_LANGS
LangNames ==
  { <<<<"j", "a", "v", "a", "s", "c", "r", "i", "p", "t">>, "javascript">>,
    <<<<"t", "y", "p", "e", "s", "c", "r", "i", "p", "t">>, "typescript">>,
    <<<<"p", "y", "t", "h", "o", "n">>, "python">>,
    <<<<"r", "u", "s", "t">>, "rust">>,
    <<<<"c">>, "c">>,
    <<<<"c", "s", "h", "a", "r", "p">>, "csharp">>,
    <<<<"c", "p", "p">>, "cpp">> }

\* the member of SUPPORTED_LANGS spelled t (null: SUPPORTED_LANGS.includes
\* is false)
LangNamed(t) ==
  IF \E e \in LangNames : e[1] = t
    THEN (CHOOSE e \in LangNames : e[1] = t)[2]
    ELSE null

COMPILED_LANGS == {"rust", "c", "cpp"}

\* node:path for absolute POSIX paths; the working directory is /w
Cwd == <<"/", "w">>

resolve(path) == IF startsWith(path, <<"/">>) THEN path ELSE Cwd \o <<"/">> \o path

dirname(path) == SubSeq(path, 1, lastIndexOf(path, "/"))

extname(path) ==
  LET base == slice(path, lastIndexOf(path, "/") + 1)
      dot == lastIndexOf(base, ".")
  IN IF dot > 0 THEN slice(base, dot) ELSE <<>>

basename(path, ext) ==
  LET base == slice(path, lastIndexOf(path, "/") + 1)
  IN IF /\ Len(ext) > 0 /\ Len(base) > Len(ext)
        /\ SubSeq(base, Len(base) - Len(ext) + 1, Len(base)) = ext
       THEN SubSeq(base, 1, Len(base) - Len(ext))
       ELSE base

Secured == <<"-", "s", "e", "c", "u", "r", "e", "d">>

binaryExt(env) == IF env.isWin THEN <<".", "e", "x", "e">> ELSE <<>>

\* the compile-together test of main
compileTogetherAnyLangs(paths, langs) ==
  /\ Len(paths) > 1
  /\ langs[1] \in COMPILED_LANGS

compileTogether(paths, langs) ==
  /\ Len(paths) > 1
  /\ langs[1] \in COMPILED_LANGS
  /\ \A k \in 1..Len(langs) : langs[k] = langs[1]

\* outResolved of the compile-together branch
outTogether(paths, outPath, env) ==
  IF outPath # NoArg /\ outPath # <<>>
    THEN resolve(outPath)
    ELSE dirname(paths[1]) \o <<"/">>
           \o basename(paths[1], extname(paths[1])) \o Secured \o binaryExt(env)

\* outResolved of the per-file loop for the input at index i
outEach(paths, langs, i, outPath, env) ==
  LET baseSecured == basename(paths[i], extname(paths[i])) \o Secured
      outFileName == IF langs[i] \in {"rust", "c", "cpp", "csharp"}
                       THEN baseSecured \o binaryExt(env)
                       ELSE baseSecured \o extname(paths[i])
  IN IF Len(paths) = 1 /\ outPath # NoArg
       THEN resolve(outPath)
       ELSE dirname(paths[i]) \o <<"/">> \o outFileName

\* The files on disk: path, content, and for a script what parser.parse
\* makes of the content (SyntaxError: parse throws)
SyntaxError == <<"SyntaxError">>
NoProgram == <<>>

ProgramLog ==
  Parse(NameConsole, NameX, Use("Ref", "ExpressionStatement", FALSE, NameX, <<>>, 0),
        Use("Log", "CallExpression", FALSE, NameLog, <<65>>, 1))

ProgramImport ==
  Parse(NameConsole, NameX, Use("Ref", "ExpressionStatement", FALSE, NameX, <<>>, 0),
        Use("Import", "ImportDeclaration", FALSE, NoName, <<65>>, 0))

File(path, content, program) ==
  [path |-> resolve(path), content |-> content, program |-> program]

Disk ==
  { File(<<"a", ".", "j", "s">>, <<"v", "a", "r", " ", "c", "o", "n", "s", "o", "l", "e">>, ProgramLog),
    File(<<"i", ".", "j", "s">>, <<"i", "m", "p", "o", "r", "t", " ", "'", "A", "'">>, ProgramImport),
    File(<<"s", ".", "t", "s">>, <<"v", "a", "r", " ", "v", "a", "r">>, SyntaxError),
    File(<<"t">>, <<"#", "!", "/", "u", "s", "r", "/", "b", "i", "n", "/", "e", "n", "v", " ", "n", "o", "d", "e", "\n", "v", "a", "r", " ", "c", "o", "n", "s", "o", "l", "e">>, ProgramLog),
    File(<<"p", ".", "p", "y">>, <<"#", "!", "/", "u", "s", "r", "/", "b", "i", "n", "/", "e", "n", "v", " ", "p", "y", "t", "h", "o", "n", "3", "\n">>, NoProgram),
    File(<<"m", ".", "r", "s">>, <<"f", "n", " ", "m", "a", "i", "n">>, NoProgram),
    File(<<"n", ".", "r", "s">>, <<"f", "n", " ", "f">>, NoProgram),
    File(<<"k", ".", "c">>, <<"i", "n", "t", " ", "f">>, NoProgram),
    File(<<"q", ".", "c", "s">>, <<"c", "l", "a", "s", "s", " ", "Q">>, NoProgram),
    File(<<"u", ".", "t", "x", "t">>, <<"t", "e", "x", "t">>, NoProgram) }

existsSync(path) == \E f \in Disk : f.path = path

FileAt(path) == CHOOSE f \in Disk : f.path = path

\* readFileSync(path, "utf-8")
readFileSync(path) == IF existsSync(path) THEN FileAt(path).content ELSE Unreadable

\* commandExists: the check command exited with status 0
commandExistsAnyStatus(status) == TRUE

commandExists(status) == status = 0

\* process.stdin.isTTY in ensureDependency
canPromptAlways(env) == TRUE

canPrompt(env) == env.isTTY

\* /^y|yes$/i.test(answer.trim())
saysYes(answer) ==
  LET t == toLowerCase(trim(answer)) IN
    \/ startsWith(t, <<"y">>)
    \/ /\ Len(t) >= 3
       /\ SubSeq(t, Len(t) - 2, Len(t)) = <<"y", "e", "s">>

\* promptYesNo: without a terminal no question is put and the answer is no
promptYesNo(lang, env) ==
  IF ~env.isTTY
    THEN [log |-> <<>>, yes |-> FALSE]
    ELSE [log |-> << <<"ask", lang>> >>, yes |-> saysYes(env.answer)]

\* ensureWindowsPackageManager; env.pkg is "winget", "choco", "bootstrap"
\* (neither, and the bootstrap of winget succeeds) or "none"
ensureWindowsPackageManager(env) ==
  IF env.pkg \in {"winget", "choco"} THEN [threw |-> FALSE, log |-> <<>>]
  ELSE [threw |-> env.pkg # "bootstrap", log |-> << <<"bootstrap">> >>]

\* the install step: runPythonInstall for python, else installCmd, or
\* installCmdChoco when only Chocolatey is there; it throws on a status # 0
installStep(lang, env) ==
  LET cmd == IF lang = "python" THEN "pip"
             ELSE IF env.isWin /\ env.pkg = "choco" THEN "installCmdChoco"
             ELSE "installCmd"
  IN [threw |-> env.installStatus # 0,
      log |-> << <<"install", lang, cmd, env.installStatus>> >>]

\* ensureDependency(lang): threw, the commands run and questions put in
\* order, and the tools present afterwards.  A tool installed earlier in
\* the run is found by the first check.
ensureDependency(lang, env, tools) ==
  IF lang \in {"javascript", "typescript"}
    THEN [threw |-> FALSE, log |-> <<>>, tools |-> tools]
  ELSE
    LET first == IF lang \in tools THEN 0 ELSE env.checkStatus
        check1 == << <<"check", lang, first>> >>
        pm == IF env.isWin THEN ensureWindowsPackageManager(env)
                           ELSE [threw |-> FALSE, log |-> <<>>]
        asked == IF canPrompt(env) THEN promptYesNo(lang, env)
                                   ELSE [log |-> <<>>, yes |-> TRUE]
        inst == installStep(lang, env)
        check2 == << <<"check", lang, env.recheckStatus>> >>
    IN IF commandExists(first)
         THEN [threw |-> FALSE, log |-> check1, tools |-> tools]
       ELSE IF pm.threw
         THEN [threw |-> TRUE, log |-> check1 \o pm.log, tools |-> tools]
       ELSE IF ~asked.yes
         THEN [threw |-> TRUE, log |-> check1 \o pm.log \o asked.log, tools |-> tools]
       ELSE IF inst.threw
         THEN [threw |-> TRUE, log |-> check1 \o pm.log \o asked.log \o inst.log,
               tools |-> tools]
       ELSE IF ~commandExists(env.recheckStatus)
         THEN [threw |-> TRUE,
               log |-> check1 \o pm.log \o asked.log \o inst.log \o check2,
               tools |-> tools]
       ELSE [threw |-> FALSE,
             log |-> check1 \o pm.log \o asked.log \o inst.log \o check2,
             tools |-> tools \cup {lang}]

\* the catch block of the per-file loop, and the same loop left at once
afterCatchStop(c, events) ==
  [c EXCEPT !.pc = "each", !.failed = TRUE, !.i = Len(c.paths) + 1,
            !.log = c.log \o events \o << <<"caught", c.i>> >>]

afterCatch(c, events) ==
  [c EXCEPT !.pc = "each", !.failed = TRUE, !.i = c.i + 1,
            !.log = c.log \o events \o << <<"caught", c.i>> >>]

\* obfuscate(source, lang, options) has thrown
threwNever(p) == FALSE

threw(p) == p = "failed"

\* main, up to the dispatch: parseArgs, the checks that end the process
\* with status 1, and the choice between compiling together and the loop
Main ==
  /\ call.fn = "main"
  /\ cli.pc = "start"
  /\ LET parsed == parseArgs(call.argv)
         badLang == parsed.lang # NoArg /\ LangNamed(toLowerCase(parsed.lang)) = null
         inputPaths == IF Len(parsed.inputPaths) = 0 THEN call.dialog
                                                     ELSE parsed.inputPaths
         paths == [k \in 1..Len(inputPaths) |-> resolve(inputPaths[k])]
         langs == [k \in 1..Len(paths) |->
                     IF parsed.lang # NoArg /\ parsed.lang # <<>>
                       THEN LangNamed(toLowerCase(parsed.lang))
                       ELSE detectLanguage(paths[k], TRUE, readFileSync(paths[k]))]
     IN IF parsed.help
          THEN /\ ret' = Returned(0)
               /\ cli' = [cli EXCEPT !.pc = "exited"]
        ELSE IF \/ badLang
                \/ Len(inputPaths) = 0
                \/ \E k \in 1..Len(paths) : ~existsSync(paths[k])
                \/ \E k \in 1..Len(paths) : langs[k] = null
          THEN /\ ret' = Returned(1)
               /\ cli' = [cli EXCEPT !.pc = "exited"]
        ELSE /\ ret' = ret
             /\ cli' = [cli EXCEPT
                          !.pc = IF compileTogether(paths, langs)
                                   THEN "together" ELSE "each",
                          !.i = 1, !.paths = paths, !.langs = langs,
                          !.outPath = parsed.outPath,
                          !.options = parsed.options]
  /\ UNCHANGED <<transformVars, call>>

\* the compile-together branch: ensureDependency, then runSecureCommand on
\* all paths; an error ends the process with status 1
CompileTogether ==
  /\ cli.pc = "together"
  /\ LET lang == cli.langs[1]
         dep == ensureDependency(lang, call.env, cli.tools)
         out == outTogether(cli.paths, cli.outPath, call.env)
         secure == << <<"ensured", lang>>,
                      <<"secure", lang, cli.paths, out, call.env.backendStatus>> >>
     IN IF dep.threw
          THEN /\ cli' = [cli EXCEPT !.pc = "exited", !.log = cli.log \o dep.log]
               /\ ret' = Returned(1)
          ELSE /\ cli' = [cli EXCEPT !.pc = "exited", !.tools = dep.tools,
                                     !.log = cli.log \o dep.log \o secure]
               /\ ret' = Returned(IF call.env.backendStatus = 0 THEN 0 ELSE 1)
  /\ UNCHANGED <<transformVars, call>>

\* an iteration of the per-file loop for a script: readFileSync and the call
\* of obfuscate, which runs the transform on what the file parses to
Obfuscate ==
  /\ cli.pc = "each"
  /\ cli.i <= Len(cli.paths)
  /\ cli.langs[cli.i] \in {"javascript", "typescript"}
  /\ LET program == FileAt(cli.paths[cli.i]).program IN
       /\ ast' = IF program = SyntaxError THEN <<>> ELSE program
       /\ input' = ast'
       /\ options' = cli.options
       /\ prev' = NoOptions
       /\ renameMap' = EmptyMap(ast')
       /\ pc' = IF program = SyntaxError THEN "failed"
                ELSE AfterParse(cli.options, program).pc
       /\ idx' = IF program = SyntaxError THEN 0
                 ELSE AfterParse(cli.options, program).idx
       /\ output' = NoOutput
       /\ run' = 1
  /\ cli' = [cli EXCEPT !.pc = "obfuscate",
                        !.log = Append(cli.log, <<"attempt", cli.i>>)]
  /\ UNCHANGED <<call, ret>>

\* obfuscate has returned: writeFileSync(outResolved, result)
WriteFile ==
  /\ cli.pc = "obfuscate"
  /\ pc \in {"done", "failed"}
  /\ ~threw(pc)
  /\ cli' = [cli EXCEPT
               !.pc = "each", !.i = cli.i + 1,
               !.log = Append(cli.log,
                              <<"write", cli.i,
                                outEach(cli.paths, cli.langs, cli.i,
                                        cli.outPath, call.env),
                                output>>)]
  /\ UNCHANGED <<transformVars, call, ret>>

\* obfuscate has thrown: the catch block of the loop
CatchObfuscate ==
  /\ cli.pc = "obfuscate"
  /\ threw(pc)
  /\ cli' = afterCatch(cli, <<>>)
  /\ UNCHANGED <<transformVars, call, ret>>

\* an iteration of the per-file loop for another language: ensureDependency,
\* then runSecureCommand on the one path; an error is caught
Secure ==
  /\ cli.pc = "each"
  /\ cli.i <= Len(cli.paths)
  /\ cli.langs[cli.i] \notin {"javascript", "typescript"}
  /\ LET lang == cli.langs[cli.i]
         dep == ensureDependency(lang, call.env, cli.tools)
         out == outEach(cli.paths, cli.langs, cli.i, cli.outPath, call.env)
         attempt == << <<"attempt", cli.i>> >>
         secure == << <<"ensured", lang>>,
                      <<"secure", lang, <<cli.paths[cli.i]>>, out,
                        call.env.backendStatus>> >>
     IN IF dep.threw
          THEN cli' = afterCatch(cli, attempt \o dep.log)
        ELSE IF call.env.backendStatus # 0
          THEN cli' = afterCatch([cli EXCEPT !.tools = dep.tools],
                                 attempt \o dep.log \o secure)
        ELSE cli' = [cli EXCEPT !.i = cli.i + 1, !.tools = dep.tools,
                                !.log = cli.log \o attempt \o dep.log \o secure]
  /\ UNCHANGED <<transformVars, call, ret>>

\* the end of main: process.exit(1) if an input failed
Exit ==
  /\ cli.pc = "each"
  /\ cli.i > Len(cli.paths)
  /\ cli' = [cli EXCEPT !.pc = "exited"]
  /\ ret' = Returned(IF cli.failed THEN 1 ELSE 0)
  /\ UNCHANGED <<transformVars, call>>

\* the environments of a run
Env(tty, win, pkg, check, answer, install, recheck, backend) ==
  [isTTY |-> tty, isWin |-> win, pkg |-> pkg, checkStatus |-> check,
   answer |-> answer, installStatus |-> install,
   recheckStatus |-> recheck, backendStatus |-> backend]

Answers == { <<"y">>, <<"n">>, <<"Y", "e", "s", " ">>, <<>> }

Platforms ==
  { [isWin |-> FALSE, pkg |-> "none"] }
  \cup { [isWin |-> TRUE, pkg |-> m] : m \in {"winget", "choco", "bootstrap", "none"} }

AllEnvs ==
  { Env(t, w.isWin, w.pkg, c, a, n, r, b) :
      t \in BOOLEAN, w \in Platforms, c \in {0, 1}, a \in Answers,
      n \in {0, 1}, r \in {0, 1}, b \in {0, 1} }

\* a few environments: everything there; the backend fails; a tool is
\* missing and no terminal; a tool is missing and the user declines
SomeEnvs ==
  { Env(TRUE, FALSE, "none", 0, <<"y">>, 0, 0, 0),
    Env(TRUE, FALSE, "none", 0, <<"y">>, 0, 0, 1),
    Env(FALSE, FALSE, "none", 1, <<"y">>, 0, 0, 0),
    Env(TRUE, TRUE, "winget", 1, <<"n">>, 0, 0, 0) }

ArgPaths ==
  { <<"a", ".", "j", "s">>, <<"i", ".", "j", "s">>, <<"s", ".", "t", "s">>, <<"p", ".", "p", "y">>, <<"m", ".", "r", "s">>, <<"n", ".", "r", "s">>, <<"k", ".", "c">> }

OutArg == <<"o", "u", "t">>

\* the command lines: up to MaxInputs files with or without -o; one file
\* with the other options; one file of each language in every environment
InputLists == UNION { [1..n -> ArgPaths] : n \in 1..MaxInputs }

OptionArgs ==
  { <<>>, <<ArgNoRename>>, <<ArgNoEncode>>, <<ArgNoRename, ArgNoEncode>>,
    << <<"-", "-", "m", "i", "n", "i", "f", "y">> >>, <<ArgLang>>, <<ArgLang, <<"R", "U", "S", "T">>>>,
    <<ArgLang, <<"c", "o", "b", "o", "l">>>>, << <<"-", "-", "h", "e", "l", "p">> >>, << <<"-", "-", "o", "u", "t">> >> }

OneFile ==
  { <<"a", ".", "j", "s">>, <<"t">>, <<"u", ".", "t", "x", "t">>, <<"g", "o", "n", "e", ".", "j", "s">>, <<"m", ".", "r", "s">> }

Arguments ==
  { [argv |-> l \o o, dialog |-> <<>>, env |-> e] :
      l \in InputLists, o \in {<<>>, <<<<"-", "o">>, OutArg>>}, e \in SomeEnvs }
  \cup { [argv |-> o \o <<f>>, dialog |-> <<>>, env |-> e] :
           o \in OptionArgs, f \in OneFile, e \in SomeEnvs }
  \cup { [argv |-> <<>>, dialog |-> d, env |-> e] :
           d \in {<<>>, << <<"a", ".", "j", "s">> >>}, e \in SomeEnvs }
  \cup { [argv |-> <<f>>, dialog |-> <<>>, env |-> e] :
           f \in { <<"p", ".", "p", "y">>, <<"m", ".", "r", "s">>, <<"k", ".", "c">>, <<"q", ".", "c", "s">> }, e \in AllEnvs }

InitCli ==
  /\ NoTransform
  /\ \E a \in Arguments :
       call = [fn |-> "main", argv |-> a.argv, dialog |-> a.dialog, env |-> a.env]
  /\ ret = NoReturn
  /\ cli = [pc |-> "start", i |-> 0, failed |-> FALSE, log |-> <<>>,
            paths |-> <<>>, langs |-> <<>>, outPath |-> NoArg,
            options |-> DEFAULT_OPTIONS, tools |-> {}]

NextCli ==
  \/ Main \/ CompileTogether \/ Obfuscate \/ WriteFile \/ CatchObfuscate
  \/ Secure \/ Exit
  \/ VisitIdentifier \/ VisitStringLiteral \/ Generate

SpecCli == InitCli /\ [][NextCli]_vars

(***************************************************************************)
(* Vocabulary of the properties                                            *)
(***************************************************************************)
Identifiers(tree) == { i \in 1..Len(tree) : tree[i].type = "Identifier" }
Literals(tree) == { i \in 1..Len(tree) : tree[i].type = "StringLiteral" }

\* the rename pass of the current run is over and the tree still has the
\* nodes of the input at their places
RenameOver ==
  /\ options.rename
  /\ pc \in {"encode", "generate", "done", "failed"}
  /\ Len(ast) = Len(input)

\* the encode pass of the current run is over
EncodeOver == options.encodeStrings /\ pc \in {"generate", "done"}

\* an Identifier that is a name of a property, not of a variable
IsPropertyName(tree, i) ==
  \/ /\ Parent(tree, i).type \in {"MemberExpression", "OptionalMemberExpression"}
     /\ tree[i].key = "property"
     /\ ~Parent(tree, i).computed
  \/ /\ Parent(tree, i).type \in {"ObjectProperty", "ObjectMethod", "ClassMethod"}
     /\ tree[i].key = "key"
     /\ ~Parent(tree, i).computed

\* the binding an Identifier belongs to by the language's scoping rules: a
\* declaring Identifier belongs to the binding it declares, a reference to
\* the binding its name resolves to (0: none, a free reference or no variable)
BindingIn(tree, i) ==
  IF tree[i].declares # NoScope THEN i
  ELSE IF IsPropertyName(tree, i) THEN 0
  ELSE getBinding(tree, tree[i].scope, tree[i].name)

\* the place in ast of the node at index i of input: every literal the
\* encode pass has replaced stands two nodes further than before
RECURSIVE OutIndex(_)
OutIndex(i) ==
  IF i = 1 THEN 1
  ELSE LET p == OutIndex(i - 1) IN
    IF input[i - 1].type = "StringLiteral" /\ ast[p].type = "CallExpression"
      THEN p + 3 ELSE p + 1

\* the node at index j of tree is a call atob(<literal>), and nothing else
IsAtobCall(tree, j) ==
  /\ j + 2 <= Len(tree)
  /\ tree[j].type = "CallExpression"
  /\ tree[j + 1].type = "Identifier" /\ tree[j + 1].name = NameAtob
  /\ tree[j + 1].parent = j /\ tree[j + 1].key = "callee"
  /\ tree[j + 2].type = "StringLiteral"
  /\ tree[j + 2].parent = j /\ tree[j + 2].key = "arguments"
  /\ \A k \in 1..Len(tree) : tree[k].parent = j => k \in {j + 1, j + 2}

\* the parent of the node at index j is a call whose callee is the
\* Identifier atob
AtobParent(tree, j) ==
  /\ Parent(tree, j).type = "CallExpression"
  /\ Callee(tree, tree[j].parent).type = "Identifier"
  /\ Callee(tree, tree[j].parent).name = NameAtob

NumArguments(tree, p) ==
  Cardinality({ k \in 1..Len(tree) : tree[k].parent = p /\ tree[k].key = "arguments" })

(***************************************************************************)
(* Properties                                                              *)
(***************************************************************************)

\* C1 (first half): when the rename pass is over, the Identifiers of one
\* binding, its declaring Identifier and its references, carry one name
SameBindingSameName ==
  RenameOver =>
    \A i, j \in Identifiers(input) :
      (BindingIn(input, i) # 0 /\ BindingIn(input, i) = BindingIn(input, j))
        => ast[i].name = ast[j].name

\* C1 (second half): within a run a name stored in the rename map stays
MapEntriesStay ==
  run' = run =>
    \A b \in DOMAIN renameMap :
      renameMap[b] # NoName => renameMap'[b] = renameMap[b]

\* C1: within one run with rename enabled all Identifiers of one binding
\* (a function declaration's own name included) end with the same
\* replacement name, and a name stored in the rename map never changes
C1_OneNamePerBinding == []SameBindingSameName /\ [][MapEntriesStay]_vars

\* C2: with nested declarations of one name, a reference carries the name
\* generated for its own binding, and two distinct bindings of a run never
\* receive the same replacement name
C2_DistinctBindingsDistinctNames ==
  RenameOver =>
    /\ \A i \in Identifiers(input) :
         (BindingIn(input, i) # 0 /\ renameMap[BindingIn(input, i)] # NoName)
           => ast[i].name = renameMap[BindingIn(input, i)]
    /\ \A b, c \in DOMAIN renameMap :
         (b # c /\ renameMap[b] # NoName /\ renameMap[c] # NoName)
           => renameMap[b] # renameMap[c]

\* C3: the rename pass never alters a property key or the name of a
\* non-computed member access (plain or optional), whatever is in scope
C3_PropertyNamesKept ==
  RenameOver =>
    \A i \in Identifiers(input) :
      IsPropertyName(input, i) => ast[i].name = input[i].name

\* the literals of the input that the encode pass has replaced by a call
Replaced == { i \in Literals(input) : ast[OutIndex(i)].type = "CallExpression" }

\* C4: decoding the payload made by encodeStringLiteral(s) with atob gives
\* s back, also for code units above 127 and for NUL
C4_DecodeGivesTheLiteral ==
  pc = "done" =>
    \A i \in Replaced :
      /\ IsAtobCall(ast, OutIndex(i))
      /\ atob(ast[OutIndex(i) + 2].value) = input[i].value

\* every node of the tree is of a type its parent's field accepts
WellFormed(tree) ==
  \A i \in 1..Len(tree) : FieldAccepts(Parent(tree, i), tree[i].key, tree[i].type)

\* C5: for every input that parses the transform returns valid source: no
\* call stands where only a string literal may, the generator does not
\* fail, and the returned code parses
C5_OutputIsValidSource ==
  /\ pc # "failed"
  /\ pc = "done" => (WellFormed(ast) /\ Parses(ast))

\* what running console.log(<node j>) prints: a literal prints its value,
\* a call atob(<literal>) the decoded payload when atob is the runtime's
\* function, and otherwise the program's own atob is called
Eval(tree, j) ==
  IF tree[j].type = "StringLiteral" THEN <<"prints", tree[j].value>>
  ELSE IF IsAtobCall(tree, j) /\ getBinding(tree, tree[j + 1].scope, NameAtob) = 0
    THEN IF atobAccepts(tree[j + 2].value)
           THEN <<"prints", atob(tree[j + 2].value)>>
           ELSE <<"throws">>
  ELSE <<"calls", tree[j + 1].name>>

IsLogArgument(tree, j) ==
  /\ tree[j].key = "arguments"
  /\ Parent(tree, j).type = "CallExpression"
  /\ Callee(tree, tree[j].parent).type = "MemberExpression"

\* the sequence of observable outputs of the program from node j on
RECURSIVE OutputsFrom(_, _)
OutputsFrom(tree, j) ==
  IF j > Len(tree) THEN <<>>
  ELSE (IF IsLogArgument(tree, j) THEN <<Eval(tree, j)>> ELSE <<>>)
       \o OutputsFrom(tree, j + 1)

Outputs(tree) == OutputsFrom(tree, 1)

\* every Identifier of the input names in the output what it named in the
\* input: the same declaration, or the same property or global name
SameResolution ==
  \A i \in Identifiers(input) :
    IF BindingIn(input, i) = 0
      THEN /\ ast[OutIndex(i)].name = input[i].name
           /\ BindingIn(ast, OutIndex(i)) = 0
      ELSE BindingIn(ast, OutIndex(i)) = OutIndex(BindingIn(input, i))

\* C6: the original source and the returned source behave alike: the same
\* sequence of outputs, every name denoting what it denoted
C6_SameObservableBehaviour ==
  pc = "done" => (Outputs(ast) = Outputs(input) /\ SameResolution)

\* C7: a second run with encodeStrings, on the code of a run with
\* encodeStrings, leaves every literal the earlier run produced as it is:
\* no further atob call is wrapped around it
C7_NoSecondEncoding ==
  (run > 1 /\ prev.encodeStrings /\ EncodeOver) =>
    \A i \in Literals(input) :
      input[i].made => ast[OutIndex(i)] = input[i]

\* the literal at index i of the input is the sole argument of a call whose
\* callee is the Identifier atob
SoleAtobArgument(i) ==
  AtobParent(input, i) /\ NumArguments(input, input[i].parent) = 1

\* the literal at index i of the input stands unchanged in the tree
LeftAsLiteral(i) ==
  /\ ast[OutIndex(i)].type = "StringLiteral"
  /\ ast[OutIndex(i)].value = input[i].value

\* the literal at index i of the input is now atob(<its base64 payload>)
NowAtobCall(i) ==
  /\ IsAtobCall(ast, OutIndex(i))
  /\ ast[OutIndex(i) + 2].value = encodeStringLiteral(input[i].value)

\* C8 as stated: after the encode pass every non-empty literal of the input
\* is an atob call, except the sole argument of a call to atob; every empty
\* literal is left
C8_AsStated ==
  EncodeOver =>
    \A i \in Literals(input) :
      IF Len(input[i].value) = 0 \/ SoleAtobArgument(i)
        THEN LeftAsLiteral(i) ELSE NowAtobCall(i)

\* C8: after the encode pass every non-empty literal of the input is a call
\* atob(<base64 of its UTF-8 bytes>), except a literal that, when the pass
\* runs (after renaming), is any argument of a call whose callee is the
\* Identifier atob; every empty literal is left
C8_EncodedUnlessInsideAtob ==
  EncodeOver =>
    \A i \in Literals(input) :
      IF Len(input[i].value) = 0 \/ AtobParent(ast, OutIndex(i))
        THEN LeftAsLiteral(i) ELSE NowAtobCall(i)

\* a finished run in which the encode pass replaced a literal by a call
C8_Witness ==
  /\ EncodeOver /\ pc = "done"
  /\ \E i \in Literals(input) : Len(input[i].value) > 0 /\ NowAtobCall(i)

\* C9: the rename pass leaves an Identifier with a reserved name, declared
\* by the program or not, and an Identifier whose name no enclosing scope
\* declares, with its name
C9_ReservedAndFreeKept ==
  RenameOver =>
    \A i \in Identifiers(input) :
      (\/ input[i].name \in reserved
       \/ getBinding(input, input[i].scope, input[i].name) = 0)
        => ast[i].name = input[i].name

\* a finished rename pass over a program that declares a reserved name and
\* uses a name nothing declares
C9_Witness ==
  /\ RenameOver /\ pc = "done"
  /\ \E i \in Identifiers(input) :
       /\ input[i].name \in reserved
       /\ ~RenameSkips(input, i)
       /\ getBinding(input, input[i].scope, input[i].name) # 0
  /\ \E i \in Identifiers(input) :
       /\ ~RenameSkips(input, i)
       /\ getBinding(input, input[i].scope, input[i].name) = 0

\* C10: the rename pass leaves an Identifier whose name starts with _0x, so
\* a rename pass over the code of a rename pass changes no Identifier
C10_RenameIdempotent ==
  RenameOver =>
    /\ \A i \in Identifiers(input) :
         startsWith(input[i].name, GeneratedPrefix) => ast[i].name = input[i].name
    /\ (run > 1 /\ prev.rename) =>
         \A i \in Identifiers(input) : ast[i].name = input[i].name

\* a finished second rename pass over code whose declared names an earlier
\* rename pass generated
C10_Witness ==
  /\ RenameOver /\ pc = "done" /\ run > 1 /\ prev.rename
  /\ \E i \in Identifiers(input) :
       /\ startsWith(input[i].name, GeneratedPrefix)
       /\ input[i].name # NameOld
       /\ ~isMemberProperty(input, i) /\ ~isObjectKey(input, i)
       /\ getBinding(input, input[i].scope, input[i].name) # 0

\* C11: with options.rename false no Identifier of the input is modified,
\* with options.encodeStrings false no StringLiteral is replaced (the tree
\* keeps its nodes), and with both false the returned code is the
\* serialization of the tree as parsed
C11_FlagsDisableTheirStage ==
  /\ ~options.rename =>
       \A i \in Identifiers(input) :
         /\ ast[OutIndex(i)].type = "Identifier"
         /\ ast[OutIndex(i)].name = input[i].name
  /\ ~options.encodeStrings =>
       /\ Len(ast) = Len(input)
       /\ \A i \in Literals(input) : ast[i] = input[i]
  /\ (~options.rename /\ ~options.encodeStrings /\ pc = "done") =>
       output = generate(input)

\* a finished run with rename off and encodeStrings on that replaced a
\* literal, over a program with an Identifier the rename pass would rename
C11_Witness ==
  /\ pc = "done" /\ ~options.rename /\ options.encodeStrings
  /\ Replaced # {}
  /\ \E i \in Identifiers(input) :
       /\ ~RenameSkips(input, i)
       /\ input[i].name \notin reserved
       /\ getBinding(input, input[i].scope, input[i].name) # 0

\* C13: a run whose options value carries a key other than rename and
\* encodeStrings is rejected: it returns no code
C13_UnknownKeyRejected ==
  (DOMAIN options # OptionKeys) => (pc # "done" /\ output = NoOutput)

\* a node of the tree that the encode pass of the current run created
Fresh(k) == \A i \in 1..Len(input) : OutIndex(i) # k

\* the literal at index k of the tree is one the StringLiteral visitor encodes
ToEncode(k) == Len(ast[k].value) > 0 /\ ~AtobParent(ast, k)

\* what is left of the encode pass: the literals not yet visited, one to
\* encode counted for the call and the literal that take its place
Measure ==
  3 * Cardinality({ k \in Literals(ast) : k >= idx /\ ToEncode(k) })
    + Cardinality({ k \in Literals(ast) : k >= idx /\ ~ToEncode(k) })

\* C20 (state part): a literal the pass created is the argument of an atob
\* call, so the visitor skips it, and a replaced literal of the input is a
\* call around a literal, not around a further call
FreshLiteralsSkipped ==
  (options.encodeStrings /\ pc \in {"encode", "generate", "done"}) =>
    /\ \A k \in Literals(ast) : Fresh(k) => AtobParent(ast, k)
    /\ \A i \in Replaced : IsAtobCall(ast, OutIndex(i))
    /\ Len(ast) = Len(input) + 2 * Cardinality(Replaced)

\* C20 (step part): a step of the encode pass replaces only a literal of
\* the input, and it makes what is left of the pass smaller
EncodeStepProgress ==
  pc = "encode" =>
    /\ Len(ast') # Len(ast) => ~Fresh(idx)
    /\ pc' = "encode" => Measure' < Measure

\* C20: the encode pass terminates: every step decreases a natural number,
\* each literal of the input is replaced at most once, and the literal
\* inside an inserted atob call is skipped when the traversal visits it
C20_EncodePassTerminates == []FreshLiteralsSkipped /\ [][EncodeStepProgress]_vars

\* the traversal is about to visit the literal of a call it has just inserted
C20_Witness ==
  /\ pc = "encode"
  /\ ast[idx].type = "StringLiteral" /\ Fresh(idx)
  /\ Len(ast[idx].value) > 0

\* the number a sequence of lowercase hexadecimal digits denotes (-1: the
\* sequence has another character)
RECURSIVE HexValue(_)
HexValue(d) ==
  IF Len(d) = 0 THEN 0
  ELSE LET rest == HexValue(SubSeq(d, 1, Len(d) - 1))
           last == { v \in 0..15 : HexDigits[v + 1] = d[Len(d)] }
       IN IF rest < 0 \/ last = {} THEN -1
          ELSE 16 * rest + (CHOOSE v \in last : TRUE)

\* C15: a name returned by randomName is _0x followed by exactly 6 lowercase
\* hexadecimal digits (length 9); the digits denote the number drawn, one of
\* 0xffffff >= 2^20 values, so distinct numbers give distinct names; the
\* name is not reserved and has the prefix the idempotence guard tests
C15_GeneratedNameForm ==
  (call.fn = "randomName" /\ ret # NoReturn) =>
    LET name == ret[1] IN
      /\ Len(name) = 9
      /\ SubSeq(name, 1, 3) = <<"_", "0", "x">>
      /\ HexValue(SubSeq(name, 4, 9)) = floorRandom(call.random)
      /\ floorRandom(call.random) \in 0..(RandomSpace - 1)
      /\ RandomSpace >= 2^20
      /\ name \notin reserved
      /\ startsWith(name, GeneratedPrefix)

\* randomName has returned the name of a number of fewer than 6 digits
C15_Witness ==
  /\ call.fn = "randomName" /\ ret # NoReturn
  /\ floorRandom(call.random) > 0
  /\ floorRandom(call.random) < 16^5

\* randomName has returned the name of the largest number, 0xfffffe
TopNameReached ==
  /\ call.fn = "randomName" /\ ret # NoReturn
  /\ floorRandom(call.random) = RandomSpace - 1

\* the last component of a path
BaseName(path) == slice(path, lastIndexOf(path, "/") + 1)

\* the final extension of a path, in lower case: what follows the last dot
\* of the last component, the dot included; a component without a dot, or
\* with its only dot in front, has none
FinalExtension(path) ==
  LET base == BaseName(path)
      dot == lastIndexOf(base, ".")
  IN IF dot > 0 THEN toLowerCase(slice(base, dot)) ELSE <<>>

\* the word a sequence starts with, up to the next white space
RECURSIVE FirstWord(_)
FirstWord(t) ==
  IF Len(t) > 0 /\ ~IsSpace(t[1]) THEN <<t[1]>> \o FirstWord(Tail(t)) ELSE <<>>

\* the interpreter a first line #!<command> [<argument>] names: the last
\* component of the command, or of the argument when the command is env,
\* in lower case (<<>>: the line is not a shebang line)
Interpreter(line) ==
  IF ~startsWith(line, <<"#", "!">>) THEN <<>>
  ELSE LET rest == dropSpaces(slice(line, 2))
           command == FirstWord(rest)
           argument == FirstWord(dropSpaces(slice(rest, Len(command))))
       IN IF BaseName(command) = <<"e", "n", "v">>
            THEN toLowerCase(BaseName(argument))
            ELSE toLowerCase(BaseName(command))

ShebangInterpreters ==
  { <<"n", "o", "d", "e">>,
    <<"p", "y", "t", "h", "o", "n">>,
    <<"p", "y", "t", "h", "o", "n", "3">>,
    <<"p", "y", "t", "h", "o", "n", "2">> }

\* what the claim says detectLanguage returns
DetectedAsStated(filePath, readShebang, content) ==
  IF \E e \in EXT_MAP : e[1] = FinalExtension(filePath)
    THEN (CHOOSE e \in EXT_MAP : e[1] = FinalExtension(filePath))[2]
  ELSE IF /\ readShebang
          /\ content # Unreadable
          /\ Interpreter(trim(firstOfSplit(content))) \in ShebangInterpreters
    THEN (CHOOSE e \in SHEBANG_MAP :
            e[1] = Interpreter(trim(firstOfSplit(content))))[2]
  ELSE null

\* C17: detectLanguage returns the language of the path's final extension
\* (case-insensitive) when the table has it; otherwise, with readShebang,
\* the language of the interpreter the first line names (node, python,
\* python2, python3); otherwise, an unreadable file included, null
C17_ByExtensionThenShebang ==
  (call.fn = "detectLanguage" /\ ret # NoReturn) =>
    ret[1] = DetectedAsStated(call.filePath, call.readShebang, call.content)

(***************************************************************************)
(* Properties of the command line.  cli.log holds, in order, what a run    *)
(* did: <<"attempt", i>>, <<"check", lang, status>>, <<"bootstrap">>,      *)
(* <<"ask", lang>>, <<"install", lang, command, status>>,                  *)
(* <<"ensured", lang>> (ensureDependency returned), <<"secure", lang,      *)
(* paths, out, status>>, <<"write", i, out, text>>, <<"caught", i>>.       *)
(***************************************************************************)
InMain == call.fn = "main"

EventsOf(kind) == { k \in 1..Len(cli.log) : cli.log[k][1] = kind }

IsEvent(k, kind) == k >= 1 /\ k <= Len(cli.log) /\ cli.log[k][1] = kind

Scripts == {"javascript", "typescript"}

\* main has chosen between compiling together and the per-file loop
Dispatched == InMain /\ Len(cli.paths) > 0

\* every input has the same language, and it is rust, c or cpp
SameCompiledLanguage ==
  /\ \A k \in 1..Len(cli.langs) : cli.langs[k] = cli.langs[1]
  /\ cli.langs[1] \in {"rust", "c", "cpp"}

\* <directory of the input>/<name of the input without extension>-secured
DefaultPrefix(path) ==
  LET base == BaseName(path)
      stem == SubSeq(base, 1, Len(base) - Len(FinalExtension(path)))
  IN SubSeq(path, 1, Len(path) - Len(base)) \o stem \o <<"-","s","e","c","u","r","e","d">>

\* the inputs of the per-file loop that failed
FailedInputs == { cli.log[k][2] : k \in EventsOf("caught") }

\* the inputs the per-file loop has attempted, in the order of the attempts
RECURSIVE AttemptsUpTo(_)
AttemptsUpTo(k) ==
  IF k = 0 THEN <<>>
  ELSE AttemptsUpTo(k - 1)
         \o (IF cli.log[k][1] = "attempt" THEN <<cli.log[k][2]>> ELSE <<>>)

Attempts == AttemptsUpTo(Len(cli.log))

\* the tree the transform returns the code of is fully renamed and encoded
FullyTransformed ==
  /\ options.rename =>
       \A i \in Identifiers(input) :
         (/\ ~RenameSkips(input, i)
          /\ input[i].name \notin reserved
          /\ getBinding(input, input[i].scope, input[i].name) # 0)
           => startsWith(ast[OutIndex(i)].name, GeneratedPrefix)
  /\ options.encodeStrings =>
       \A i \in Literals(input) :
         IF Len(input[i].value) = 0 \/ AtobParent(ast, OutIndex(i))
           THEN LeftAsLiteral(i) ELSE NowAtobCall(i)

\* C12: a transform that fails returns no text, text is returned only by a
\* run that completed every stage, an input gives rise to at most one
\* error, and the command line writes a file only with the text of a
\* completed transform, never for an input whose transform failed
C12_FailureLeavesNoOutput ==
  /\ pc = "failed" => output = NoOutput
  /\ output # NoOutput =>
       (pc = "done" /\ output = generate(ast) /\ FullyTransformed)
  /\ InMain =>
       /\ \A k \in EventsOf("write") :
            /\ cli.log[k][4] # NoOutput
            /\ cli.log[k][2] \notin FailedInputs
            /\ IsEvent(k - 1, "attempt") /\ cli.log[k - 1][2] = cli.log[k][2]
       /\ \A k, j \in EventsOf("caught") : cli.log[k][2] = cli.log[j][2] => k = j
       /\ (cli.pc = "each" /\ IsEvent(Len(cli.log), "write")) =>
            (pc = "done" /\ cli.log[Len(cli.log)][4] = output)

\* the transform of an input failed after it had changed the tree, the
\* error was caught and the loop went on
C12_Witness ==
  /\ InMain /\ cli.pc = "each"
  /\ IsEvent(Len(cli.log), "caught")
  /\ pc = "failed" /\ ast # <<>> /\ ast # input

MissingAt(k) ==
  /\ IsEvent(k, "check") /\ cli.log[k][3] # 0
  /\ ~IsEvent(k - 1, "install")

C16_TogetherOrEachToDefault ==
  (Dispatched /\ Len(cli.paths) > 1) =>
    IF SameCompiledLanguage
      THEN /\ EventsOf("attempt") = {} /\ EventsOf("write") = {}
           /\ Cardinality(EventsOf("secure")) <= 1
           /\ \A k \in EventsOf("secure") :
                /\ cli.log[k][3] = cli.paths
                /\ cli.outPath # NoArg => cli.log[k][4] = resolve(cli.outPath)
                /\ cli.outPath = NoArg =>
                     startsWith(cli.log[k][4], DefaultPrefix(cli.paths[1]))
           /\ (cli.pc = "exited" /\ EventsOf("ensured") # {}) =>
                Cardinality(EventsOf("secure")) = 1
      ELSE /\ \A k \in EventsOf("secure") :
                /\ Len(cli.log[k][3]) = 1
                /\ \E i \in 1..Len(cli.paths) : cli.paths[i] = cli.log[k][3][1]
                /\ startsWith(cli.log[k][4], DefaultPrefix(cli.log[k][3][1]))
                /\ cli.outPath # NoArg => cli.log[k][4] # resolve(cli.outPath)
           /\ \A k \in EventsOf("write") :
                /\ startsWith(cli.log[k][3], DefaultPrefix(cli.paths[cli.log[k][2]]))
                /\ cli.outPath # NoArg => cli.log[k][3] # resolve(cli.outPath)
           /\ cli.pc = "exited" =>
                Attempts = [i \in 1..Len(cli.paths) |-> i]

\* two inputs of one compiled language were handed to one backend call that
\* writes to the -o path
C16_Witness ==
  /\ Dispatched /\ Len(cli.paths) > 1 /\ cli.pc = "exited"
  /\ SameCompiledLanguage /\ cli.outPath # NoArg
  /\ \E k \in EventsOf("secure") :
       cli.log[k][3] = cli.paths /\ cli.log[k][4] = resolve(cli.outPath)

\* C18: runSecureCommand is called only directly after ensureDependency has
\* returned for its language; ensureDependency returns only directly after
\* a check with status 0, the first check of the call or the one after an
\* install; for a script no check and no backend call is made
C18_SecureOnlyAfterEnsured ==
  InMain =>
    /\ \A k \in EventsOf("secure") :
         IsEvent(k - 1, "ensured") /\ cli.log[k - 1][2] = cli.log[k][2]
    /\ \A k \in EventsOf("ensured") :
         /\ IsEvent(k - 1, "check")
         /\ cli.log[k - 1][2] = cli.log[k][2]
         /\ cli.log[k - 1][3] = 0
         /\ \/ IsEvent(k - 2, "install") /\ cli.log[k - 2][4] = 0
            \/ k = 2
            \/ IsEvent(k - 2, "attempt")
    /\ \A k \in EventsOf("check") \cup EventsOf("secure") \cup EventsOf("ensured") :
         cli.log[k][2] \notin Scripts
    /\ \A k \in EventsOf("attempt") :
         (cli.langs[cli.log[k][2]] \in Scripts /\ k < Len(cli.log)) =>
           cli.log[k + 1][1] \in {"write", "caught"}

\* the backend was called after an install and a second check with status 0
C18_Witness ==
  /\ InMain
  /\ \E k \in EventsOf("secure") :
       /\ IsEvent(k - 1, "ensured")
       /\ IsEvent(k - 2, "check") /\ cli.log[k - 2][3] = 0
       /\ IsEvent(k - 3, "install")

\* the run goes through the per-file loop
PerFile ==
  Dispatched /\ ~(Len(cli.paths) > 1 /\ SameCompiledLanguage)

\* C19: in the per-file loop the inputs are attempted once each, in the
\* order of the arguments, whether earlier inputs failed or not, and the
\* process exits with status 1 exactly when an input failed
C19_EveryInputAttempted ==
  PerFile =>
    /\ \E m \in 0..Len(cli.paths) : Attempts = [i \in 1..m |-> i]
    /\ cli.pc = "each" => Len(Attempts) = cli.i - 1
    /\ cli.pc = "exited" =>
         /\ Attempts = [i \in 1..Len(cli.paths) |-> i]
         /\ ret # NoReturn
         /\ ret[1] = 1 <=> FailedInputs # {}
         /\ ret[1] = 0 <=> FailedInputs = {}
    /\ FailedInputs \subseteq 1..Len(cli.paths)

\* the first of two inputs failed, the second was processed, the exit
\* status is 1
C19_Witness ==
  /\ PerFile /\ cli.pc = "exited" /\ Len(cli.paths) = 2
  /\ FailedInputs = {1}
  /\ ret = Returned(1)
  /\ \E k \in EventsOf("write") \cup EventsOf("secure") :
       IsEvent(k - 1, "attempt") \/ IsEvent(k - 1, "ensured")

\* the atob Identifiers the encode pass of the current run inserted
InsertedAtob ==
  { k \in Identifiers(ast) :
      Fresh(k) /\ ast[k].key = "callee" /\ ast[k].name = NameAtob }

\* the declaration of the returned code to which the name atob resolves at
\* the node at index k (0: none, the name is the runtime's global)
AtobDeclarationAt(k) == getBinding(ast, ast[k].scope, NameAtob)

\* C21: in the returned code no inserted atob Identifier resolves to a
\* declaration of the program: no declaration named atob in scope at an
\* inserted call keeps that name, whatever the rename and encodeStrings
\* options are
C21_InsertedAtobIsGlobal ==
  pc = "done" => \A k \in InsertedAtob : AtobDeclarationAt(k) = 0

\* the same with the rename pass enabled: every declaration named atob has
\* received a generated name before the calls are inserted
InsertedAtobIsGlobalWhenRenamed ==
  (pc = "done" /\ options.rename) =>
    \A k \in InsertedAtob : AtobDeclarationAt(k) = 0

\* a run with rename enabled has inserted an atob call into a program that
\* declared the name atob
RenamedAtobReached ==
  /\ pc = "done" /\ options.rename /\ InsertedAtob # {}
  /\ \E i \in Identifiers(input) :
       input[i].declares # NoScope /\ input[i].name = NameAtob

====
